---- MODULE Spec2Model ----
(***************************************************************************)
(* Model of PointService (src/src/point/point.service.ts): a per-user      *)
(* point ledger whose chargePoint / usePoint run a read-check-write-append *)
(* critical section under a per-user Mutex kept in the `locks` map.        *)
(*                                                                         *)
(* Every await of the service is a suspension point, so each request is a  *)
(* small process whose steps are the code between two awaits.  Requests    *)
(* run in MaxCalls slots; a batch of requests (Promise.all / allSettled in *)
(* the tests) is whatever is invoked between two Settle steps.             *)
(***************************************************************************)
EXTENDS Integers, Sequences, FiniteSets, TLC

(***************************************************************************)
(* Bounds of the model.                                                    *)
(***************************************************************************)
MaxCalls == 3
MaxOverlap == 2
MaxUser == 2
MaxAmount == 2
CHARGE_LIMIT == 2
MaxClock == 1
MaxHistory == 2

Calls == 1..MaxCalls
Users == 1..MaxUser

(***************************************************************************)
(* JavaScript numbers as the validation sees them: an integer, a value     *)
(* with a fractional part (v + 1/2), NaN, or +/-Infinity.                  *)
(***************************************************************************)
JsInt(n) == [k |-> "int", v |-> n]
JsFrac(n) == [k |-> "frac", v |-> n]
JsNaN == [k |-> "nan", v |-> 0]
JsInfinity == [k |-> "inf", v |-> 1]
JsNegInfinity == [k |-> "inf", v |-> -1]
NoArg == [k |-> "none", v |-> 0]

\* Number.isInteger(x)
IsInteger(x) == x.k = "int"

\* x <= 0 on JavaScript numbers (false for NaN)
LeqZero(x) ==
  CASE x.k = "int" -> x.v <= 0
    [] x.k = "frac" -> x.v < 0
    [] x.k = "inf" -> x.v < 0
    [] OTHER -> FALSE

\* the id guard without its Number.isInteger half
InvalidIdNoInteger(userId) == LeqZero(userId)

\* the guard `!Number.isInteger(userId) || userId <= 0` of all four operations
InvalidId(userId) == ~IsInteger(userId) \/ LeqZero(userId)

\* the guard `!Number.isInteger(amount) || amount <= 0` of chargePoint / usePoint
InvalidAmount(amount) == ~IsInteger(amount) \/ LeqZero(amount)

ValidIds == {JsInt(u) : u \in Users}
BadIds == {JsInt(0), JsInt(-1), JsFrac(1), JsNaN, JsInfinity, JsNegInfinity}
ValidAmounts == {JsInt(a) : a \in 1..MaxAmount}
BadAmounts == {JsInt(0), JsInt(-1), JsFrac(1), JsNaN, JsInfinity, JsNegInfinity}

VARIABLES
  chargeLimit,  \* PointService.chargeLimit, read once at construction
  locks,        \* PointService.locks: user id -> mutex object (a partial map)
  mutexes,      \* the Mutex objects created so far: object id -> locked?
  userDb,       \* UserPointTable: user id -> point
  historyDb,    \* PointHistoryTable: the appended records, in insertion order
  clock,        \* Date.now()
  calls,        \* the requests in flight: slot -> frame of the async function
  base          \* userDb and Len(historyDb) when the current batch began

vars == <<chargeLimit, locks, mutexes, userDb, historyDb, clock, calls, base>>

NoResult == [status |-> "pending", error |-> "none", limit |-> 0, id |-> 0, point |-> 0,
             updateMillis |-> 0, histories |-> <<>>]

IdleCall == [pc |-> "idle", op |-> "none", userId |-> NoArg, amount |-> NoArg,
             mutex |-> 0, updatedPoint |-> 0, timeMillis |-> 0, result |-> NoResult,
             instance |-> 1]

Rejected(err) == [NoResult EXCEPT !.status = "rejected", !.error = err]

\* the UserPoint { id, point, updateMillis } a call resolves with
Fulfilled(id, point, now) ==
  [NoResult EXCEPT !.status = "fulfilled", !.id = id, !.point = point, !.updateMillis = now]

\* the frame of a request right after its synchronous prefix; `instance` is
\* the PointService object whose method runs (`this`), the first one unless
\* the request is sent to another
Frame(pc, op, userId, amount, mutex, result) ==
  [pc |-> pc, op |-> op, userId |-> userId, amount |-> amount, mutex |-> mutex,
   updatedPoint |-> 0, timeMillis |-> 0, result |-> result, instance |-> 1]

Init ==
  /\ chargeLimit = CHARGE_LIMIT
  /\ locks = << >>
  /\ mutexes = << >>
  /\ userDb = [u \in Users |-> 0]
  /\ historyDb = << >>
  /\ clock = 0
  /\ calls = [r \in Calls |-> IdleCall]
  /\ base = [point |-> [u \in Users |-> 0], len |-> 0]

\* the next request takes the first free slot, while the model's history bound
\* leaves room for one more call
CanInvoke(r) ==
  /\ calls[r].pc = "idle"
  /\ \A q \in Calls : q < r => calls[q].pc # "idle"
  /\ Len(historyDb) < MaxHistory

(***************************************************************************)
(* getMutexForUser: get-or-create of the user's Mutex.  `locks` is a       *)
(* function whose domain is the set of ids that have an entry.             *)
(***************************************************************************)
\* getMutexForUser without the `has` test: a new Mutex on every call
HasLockNever(u) == FALSE

HasLock(u) == u \in DOMAIN locks

\* `new Mutex()`
NewMutex == Len(mutexes) + 1

\* every user id mapped to the one Mutex the first caller created
LocksAfterGetShared(u) ==
  IF HasLock(u) THEN locks
  ELSE [x \in DOMAIN locks \cup {u} |->
          IF DOMAIN locks = {} THEN NewMutex ELSE locks[CHOOSE y \in DOMAIN locks : TRUE]]

\* this.locks after getMutexForUser(u)
LocksAfterGet(u) ==
  IF HasLock(u) THEN locks ELSE [x \in DOMAIN locks \cup {u} |-> IF x = u THEN NewMutex ELSE locks[x]]

MutexesAfterGet(u) ==
  IF HasLock(u) THEN mutexes ELSE Append(mutexes, FALSE)

GetMutexForUser(u) == LocksAfterGet(u)[u]

(***************************************************************************)
(* getPoint / getHistories: validation, then one store read, no lock.      *)
(***************************************************************************)
\* a getPoint that fetches the user's Mutex, as chargePoint / usePoint do
GetPointLocked(r, userId) ==
  /\ CanInvoke(r)
  /\ IF InvalidId(userId)
     THEN /\ calls' = [calls EXCEPT ![r] =
                 Frame("done", "getPoint", userId, NoArg, 0, Rejected("InvalidId"))]
          /\ UNCHANGED <<locks, mutexes>>
     ELSE /\ locks' = LocksAfterGet(userId.v)
          /\ mutexes' = MutexesAfterGet(userId.v)
          /\ calls' = [calls EXCEPT ![r] =
                 Frame("read", "getPoint", userId, NoArg, GetMutexForUser(userId.v), NoResult)]
  /\ UNCHANGED <<chargeLimit, userDb, historyDb, clock, base>>

GetPoint(r, userId) ==
  /\ CanInvoke(r)
  /\ calls' = [calls EXCEPT ![r] =
       IF InvalidId(userId)
       THEN Frame("done", "getPoint", userId, NoArg, 0, Rejected("InvalidId"))
       ELSE Frame("read", "getPoint", userId, NoArg, 0, NoResult)]
  /\ UNCHANGED <<chargeLimit, locks, mutexes, userDb, historyDb, clock, base>>

GetHistories(r, userId) ==
  /\ CanInvoke(r)
  /\ calls' = [calls EXCEPT ![r] =
       IF InvalidId(userId)
       THEN Frame("done", "getHistories", userId, NoArg, 0, Rejected("InvalidId"))
       ELSE Frame("read", "getHistories", userId, NoArg, 0, NoResult)]
  /\ UNCHANGED <<chargeLimit, locks, mutexes, userDb, historyDb, clock, base>>

(***************************************************************************)
(* The two collaborators (UserPointTable, PointHistoryTable), as section 6 *)
(* of the specification describes them: a table of balances with a         *)
(* zero-balance default and a single-key replace, and an append-only list  *)
(* of records with consecutive ids.  Only the point of a UserPoint is      *)
(* kept; the table's own updateMillis is not modelled.                     *)
(***************************************************************************)
\* userDb.selectById(id).point
StoreSelectById(u) == userDb[u]

\* userDb.insertOrUpdate(id, point)
StoreInsertOrUpdate(u, point) == [userDb EXCEPT ![u] = point]

\* historyDb.selectAllByUserId(id): the user's records in insertion order
SelectAllByUserId(u) == SelectSeq(historyDb, LAMBDA h : h.userId = u)

\* historyDb.insert(userId, amount, type, timeMillis)
StoreInsert(u, amount, type, timeMillis) ==
  Append(historyDb, [id |-> Len(historyDb) + 1, userId |-> u, amount |-> amount,
                     type |-> type, timeMillis |-> timeMillis])

\* the awaited store read of getPoint / getHistories resolves
Read(r) ==
  /\ calls[r].pc = "read"
  /\ LET u == calls[r].userId.v IN
     calls' = [calls EXCEPT ![r].pc = "done",
                            ![r].result =
                              IF calls[r].op = "getPoint"
                              THEN Fulfilled(u, StoreSelectById(u), 0)
                              ELSE [NoResult EXCEPT !.status = "fulfilled",
                                                    !.histories = SelectAllByUserId(u)]]
  /\ UNCHANGED <<chargeLimit, locks, mutexes, userDb, historyDb, clock, base>>

(***************************************************************************)
(* chargePoint / usePoint up to `await mutex.runExclusive(...)`:           *)
(* validation of id, then of amount, then getMutexForUser.                 *)
(***************************************************************************)
\* chargePoint / usePoint fetching the user's Mutex before validating the amount
MutateLockFirst(r, op, userId, amount) ==
  /\ CanInvoke(r)
  /\ IF InvalidId(userId)
     THEN /\ calls' = [calls EXCEPT ![r] =
                 Frame("done", op, userId, amount, 0, Rejected("InvalidId"))]
          /\ UNCHANGED <<locks, mutexes>>
     ELSE /\ locks' = LocksAfterGet(userId.v)
          /\ mutexes' = MutexesAfterGet(userId.v)
          /\ calls' = [calls EXCEPT ![r] =
                 IF InvalidAmount(amount)
                 THEN Frame("done", op, userId, amount, 0, Rejected("InvalidAmount"))
                 ELSE Frame("acquire", op, userId, amount, GetMutexForUser(userId.v), NoResult)]
  /\ UNCHANGED <<chargeLimit, userDb, historyDb, clock, base>>

Mutate(r, op, userId, amount) ==
  /\ CanInvoke(r)
  /\ IF InvalidId(userId)
     THEN /\ calls' = [calls EXCEPT ![r] =
                 Frame("done", op, userId, amount, 0, Rejected("InvalidId"))]
          /\ UNCHANGED <<locks, mutexes>>
     ELSE IF InvalidAmount(amount)
     THEN /\ calls' = [calls EXCEPT ![r] =
                 Frame("done", op, userId, amount, 0, Rejected("InvalidAmount"))]
          /\ UNCHANGED <<locks, mutexes>>
     ELSE /\ locks' = LocksAfterGet(userId.v)
          /\ mutexes' = MutexesAfterGet(userId.v)
          /\ calls' = [calls EXCEPT ![r] =
                 Frame("acquire", op, userId, amount, GetMutexForUser(userId.v), NoResult)]
  /\ UNCHANGED <<chargeLimit, userDb, historyDb, clock, base>>

ChargePoint(r, userId, amount) == Mutate(r, "chargePoint", userId, amount)

UsePoint(r, userId, amount) == Mutate(r, "usePoint", userId, amount)

(***************************************************************************)
(* mutex.runExclusive: the callback starts once the Mutex is free.         *)
(***************************************************************************)
MutexFree(m) == ~mutexes[m]

\* runExclusive that starts the callback without waiting for the Mutex
AcquireNoWait(r) ==
  /\ calls[r].pc = "acquire"
  /\ mutexes' = [mutexes EXCEPT ![calls[r].mutex] = TRUE]
  /\ calls' = [calls EXCEPT ![r].pc = "selectById"]
  /\ UNCHANGED <<chargeLimit, locks, userDb, historyDb, clock, base>>

Acquire(r) ==
  /\ calls[r].pc = "acquire"
  /\ MutexFree(calls[r].mutex)
  /\ mutexes' = [mutexes EXCEPT ![calls[r].mutex] = TRUE]
  /\ calls' = [calls EXCEPT ![r].pc = "selectById"]
  /\ UNCHANGED <<chargeLimit, locks, userDb, historyDb, clock, base>>

\* usePoint computing its candidate the way chargePoint does
UpdatedPointAdd(op, point, amount) == point + amount

\* updatedPoint = userPoint.point +/- amount
UpdatedPoint(op, point, amount) ==
  IF op = "chargePoint" THEN point + amount ELSE point - amount

\* off-by-one variants of the two checks
CheckFailsChargeLax(op, updatedPoint) ==
  IF op = "chargePoint" THEN updatedPoint > chargeLimit + 1 ELSE updatedPoint < 0

CheckFailsChargeStrict(op, updatedPoint) ==
  IF op = "chargePoint" THEN updatedPoint >= chargeLimit ELSE updatedPoint < 0

CheckFailsUseLax(op, updatedPoint) ==
  IF op = "chargePoint" THEN updatedPoint > chargeLimit ELSE updatedPoint < -1

CheckFailsUseStrict(op, updatedPoint) ==
  IF op = "chargePoint" THEN updatedPoint > chargeLimit ELSE updatedPoint <= 0

\* usePoint without its balance check
CheckFailsNoFloor(op, updatedPoint) ==
  IF op = "chargePoint" THEN updatedPoint > chargeLimit ELSE FALSE

\* the throw inside the callback: over the limit (charge), below zero (use)
CheckFails(op, updatedPoint) ==
  IF op = "chargePoint" THEN updatedPoint > chargeLimit ELSE updatedPoint < 0

CheckError(op) == IF op = "chargePoint" THEN "LimitExceeded" ELSE "InsufficientPoint"

\* the Error thrown by the callback; the limit message quotes this.chargeLimit
Thrown(op) ==
  [Rejected(CheckError(op)) EXCEPT !.limit = IF op = "chargePoint" THEN chargeLimit ELSE 0]

\* a callback that starts over when its check fails instead of throwing
SelectByIdRetry(r) ==
  /\ calls[r].pc = "selectById"
  /\ LET c == calls[r]
         up == UpdatedPoint(c.op, StoreSelectById(c.userId.v), c.amount.v)
     IN calls' = [calls EXCEPT ![r].updatedPoint = up,
                               ![r].pc = IF CheckFails(c.op, up) THEN "selectById"
                                         ELSE "insertOrUpdate"]
  /\ UNCHANGED <<chargeLimit, locks, mutexes, userDb, historyDb, clock, base>>

\* `await userDb.selectById` resolves; updatedPoint is computed and checked
SelectById(r) ==
  /\ calls[r].pc = "selectById"
  /\ LET c == calls[r]
         up == UpdatedPoint(c.op, StoreSelectById(c.userId.v), c.amount.v)
     IN calls' = [calls EXCEPT ![r].updatedPoint = up,
                               ![r].pc = IF CheckFails(c.op, up) THEN "release" ELSE "insertOrUpdate",
                               ![r].result = IF CheckFails(c.op, up)
                                             THEN Thrown(c.op)
                                             ELSE NoResult]
  /\ UNCHANGED <<chargeLimit, locks, mutexes, userDb, historyDb, clock, base>>

\* a write that adds the amount to the balance the table holds at that moment
InsertOrUpdateIncrement(r) ==
  /\ calls[r].pc = "insertOrUpdate"
  /\ userDb' = StoreInsertOrUpdate(calls[r].userId.v,
                  UpdatedPoint(calls[r].op, StoreSelectById(calls[r].userId.v), calls[r].amount.v))
  /\ calls' = [calls EXCEPT ![r].pc = "insert", ![r].timeMillis = clock]
  /\ UNCHANGED <<chargeLimit, locks, mutexes, historyDb, clock, base>>

\* a write under the key 1 whatever the user
InsertOrUpdateFixedKey(r) ==
  /\ calls[r].pc = "insertOrUpdate"
  /\ userDb' = StoreInsertOrUpdate(1, calls[r].updatedPoint)
  /\ calls' = [calls EXCEPT ![r].pc = "insert", ![r].timeMillis = clock]
  /\ UNCHANGED <<chargeLimit, locks, mutexes, historyDb, clock, base>>

\* `await userDb.insertOrUpdate(userId, updatedPoint)` resolves; Date.now() is
\* then read for the history record and historyDb.insert is called
InsertOrUpdate(r) ==
  /\ calls[r].pc = "insertOrUpdate"
  /\ userDb' = StoreInsertOrUpdate(calls[r].userId.v, calls[r].updatedPoint)
  /\ calls' = [calls EXCEPT ![r].pc = "insert", ![r].timeMillis = clock]
  /\ UNCHANGED <<chargeLimit, locks, mutexes, historyDb, clock, base>>

\* chargePoint recording its history with the type of usePoint
TransactionTypeUse(op) == "USE"

\* TransactionType.CHARGE in chargePoint, TransactionType.USE in usePoint
TransactionType(op) == IF op = "chargePoint" THEN "CHARGE" ELSE "USE"

\* `await historyDb.insert(userId, amount, type, Date.now())` resolves
Insert(r) ==
  /\ calls[r].pc = "insert"
  /\ historyDb' = StoreInsert(calls[r].userId.v, calls[r].amount.v,
                              TransactionType(calls[r].op), calls[r].timeMillis)
  /\ calls' = [calls EXCEPT ![r].pc = "release"]
  /\ UNCHANGED <<chargeLimit, locks, mutexes, userDb, clock, base>>

\* a hand-written acquire / release that skips the release when the callback threw
ReleaseUnlessThrown(r) ==
  /\ calls[r].pc = "release"
  /\ mutexes' = [mutexes EXCEPT ![calls[r].mutex] = (calls[r].result.status = "rejected")]
  /\ calls' = [calls EXCEPT ![r].pc = "done",
                            ![r].result = IF calls[r].result.status = "rejected"
                                          THEN calls[r].result
                                          ELSE Fulfilled(calls[r].userId.v, calls[r].updatedPoint, clock)]
  /\ UNCHANGED <<chargeLimit, locks, userDb, historyDb, clock, base>>

\* a release that deletes the user's entry from the Map when no other request
\* holds or waits for its Mutex
ReleaseAndEvict(r) ==
  /\ calls[r].pc = "release"
  /\ calls[r].mutex \in DOMAIN mutexes
  /\ mutexes' = [mutexes EXCEPT ![calls[r].mutex] = FALSE]
  /\ locks' = IF \E q \in Calls \ {r} : /\ calls[q].mutex = calls[r].mutex
                                         /\ calls[q].pc \notin {"idle", "done"}
              THEN locks
              ELSE [k \in {x \in DOMAIN locks : locks[x] # calls[r].mutex} |-> locks[k]]
  /\ calls' = [calls EXCEPT ![r].pc = "done",
                            ![r].result = IF calls[r].result.status = "rejected"
                                          THEN calls[r].result
                                          ELSE Fulfilled(calls[r].userId.v, calls[r].updatedPoint, clock)]
  /\ UNCHANGED <<chargeLimit, userDb, historyDb, clock, base>>

\* runExclusive releases the Mutex when the callback returned or threw; the
\* request then returns { id, point: updatedPoint, updateMillis: Date.now() }
\* or rejects with the callback's error
Release(r) ==
  /\ calls[r].pc = "release"
  /\ calls[r].mutex \in DOMAIN mutexes
  /\ mutexes' = [mutexes EXCEPT ![calls[r].mutex] = FALSE]
  /\ calls' = [calls EXCEPT ![r].pc = "done",
                            ![r].result = IF calls[r].result.status = "rejected"
                                          THEN calls[r].result
                                          ELSE Fulfilled(calls[r].userId.v, calls[r].updatedPoint, clock)]
  /\ UNCHANGED <<chargeLimit, locks, userDb, historyDb, clock, base>>

\* time passes
Tick ==
  /\ clock < MaxClock
  /\ clock' = clock + 1
  /\ UNCHANGED <<chargeLimit, locks, mutexes, userDb, historyDb, calls, base>>

\* the caller's Promise.all / allSettled over the batch resolves: every
\* request of the batch is done, the slots are free for the next batch
Settle ==
  /\ \E r \in Calls : calls[r].pc = "done"
  /\ \A r \in Calls : calls[r].pc \in {"idle", "done"}
  /\ calls' = [r \in Calls |-> IdleCall]
  /\ base' = [point |-> userDb, len |-> Len(historyDb)]
  /\ UNCHANGED <<chargeLimit, locks, mutexes, userDb, historyDb, clock>>

(***************************************************************************)
(* Spec: the whole service.  Up to MaxOverlap requests of any of the four  *)
(* operations overlap, on any user, with valid and invalid arguments.      *)
(***************************************************************************)
Overlap == 1..MaxOverlap
IdInputs == ValidIds \cup {JsInt(0), JsNaN}
AmountInputs == ValidAmounts \cup {JsInt(0), JsFrac(1)}

Next ==
  \/ \E r \in Overlap, userId \in IdInputs : GetPoint(r, userId)
  \/ \E r \in Overlap, userId \in IdInputs : GetHistories(r, userId)
  \/ \E r \in Overlap, userId \in IdInputs, amount \in AmountInputs : ChargePoint(r, userId, amount)
  \/ \E r \in Overlap, userId \in IdInputs, amount \in AmountInputs : UsePoint(r, userId, amount)
  \/ \E r \in Calls : Read(r)
  \/ \E r \in Calls : Acquire(r)
  \/ \E r \in Calls : SelectById(r)
  \/ \E r \in Calls : InsertOrUpdate(r)
  \/ \E r \in Calls : Insert(r)
  \/ \E r \in Calls : Release(r)
  \/ Tick
  \/ Settle

Spec == Init /\ [][Next]_vars

(***************************************************************************)
(* SpecBatch: batches of up to MaxCalls concurrent chargePoint / usePoint  *)
(* requests with valid arguments, all on user 1 (the integration tests'    *)
(* Promise.all / Promise.allSettled scenarios).                            *)
(***************************************************************************)
NextBatch ==
  \/ \E r \in Calls, amount \in ValidAmounts : ChargePoint(r, JsInt(1), amount)
  \/ \E r \in Calls, amount \in ValidAmounts : UsePoint(r, JsInt(1), amount)
  \/ \E r \in Calls : Acquire(r)
  \/ \E r \in Calls : SelectById(r)
  \/ \E r \in Calls : InsertOrUpdate(r)
  \/ \E r \in Calls : Insert(r)
  \/ \E r \in Calls : Release(r)
  \/ Settle

SpecBatch == Init /\ [][NextBatch]_vars

(***************************************************************************)
(* SpecUsers: chargePoint / usePoint requests with valid arguments on any  *)
(* user, up to MaxOverlap of them overlapping.                             *)
(***************************************************************************)
NextUsers ==
  \/ \E r \in Overlap, userId \in ValidIds, amount \in ValidAmounts : ChargePoint(r, userId, amount)
  \/ \E r \in Overlap, userId \in ValidIds, amount \in ValidAmounts : UsePoint(r, userId, amount)
  \/ \E r \in Calls : Acquire(r)
  \/ \E r \in Calls : SelectById(r)
  \/ \E r \in Calls : InsertOrUpdate(r)
  \/ \E r \in Calls : Insert(r)
  \/ \E r \in Calls : Release(r)
  \/ Settle

SpecUsers == Init /\ [][NextUsers]_vars

\* SpecUsersFair: SpecUsers under fair scheduling.  A store promise that can
\* resolve does resolve and a released Mutex is handed on (weak fairness of
\* the steps inside runExclusive); a request queued on a Mutex that becomes
\* free again and again is eventually the one it is granted to (strong
\* fairness of Acquire: the Mutex serves its waiters from a queue).  Calls of
\* the service and Settle are under no fairness: nobody has to call.
Fairness ==
  \A r \in Calls :
    /\ SF_vars(Acquire(r))
    /\ WF_vars(SelectById(r))
    /\ WF_vars(InsertOrUpdate(r))
    /\ WF_vars(Insert(r))
    /\ WF_vars(Release(r))

SpecUsersFair == Init /\ [][NextUsers]_vars /\ Fairness

(***************************************************************************)
(* SpecArgs: the four operations on user 1 with every kind of argument the *)
(* unit tests pass, valid or not, up to MaxOverlap calls overlapping.      *)
(***************************************************************************)
AnyId == BadIds \cup {JsInt(1)}
AnyAmount == BadAmounts \cup {JsInt(1)}

NextArgs ==
  \/ \E r \in Overlap, userId \in AnyId : GetPoint(r, userId)
  \/ \E r \in Overlap, userId \in AnyId : GetHistories(r, userId)
  \/ \E r \in Overlap, userId \in AnyId, amount \in AnyAmount : ChargePoint(r, userId, amount)
  \/ \E r \in Overlap, userId \in AnyId, amount \in AnyAmount : UsePoint(r, userId, amount)
  \/ \E r \in Calls : Read(r)
  \/ \E r \in Calls : Acquire(r)
  \/ \E r \in Calls : SelectById(r)
  \/ \E r \in Calls : InsertOrUpdate(r)
  \/ \E r \in Calls : Insert(r)
  \/ \E r \in Calls : Release(r)
  \/ Settle

SpecArgs == Init /\ [][NextArgs]_vars

(***************************************************************************)
(* The unguarded variant of the service (src/unnamed/part_000, lines 1 to  *)
(* 83): the same validation and the same read, check, write and append,    *)
(* awaited one after the other with no Mutex.  Its steps after validation  *)
(* are the statements of the guarded callback, so SelectById,              *)
(* InsertOrUpdate and Insert serve both; a request of the variant has no   *)
(* Mutex (mutex = 0) and ends with UnguardedReturn.                        *)
(***************************************************************************)
\* an unguarded chargePoint / usePoint without the amount guard
UnguardedMutateAnyAmount(r, op, userId, amount) ==
  /\ CanInvoke(r)
  /\ calls' = [calls EXCEPT ![r] =
       IF InvalidId(userId)
       THEN Frame("done", op, userId, amount, 0, Rejected("InvalidId"))
       ELSE Frame("selectById", op, userId, amount, 0, NoResult)]
  /\ UNCHANGED <<chargeLimit, locks, mutexes, userDb, historyDb, clock, base>>

UnguardedMutate(r, op, userId, amount) ==
  /\ CanInvoke(r)
  /\ calls' = [calls EXCEPT ![r] =
       IF InvalidId(userId)
       THEN Frame("done", op, userId, amount, 0, Rejected("InvalidId"))
       ELSE IF InvalidAmount(amount)
       THEN Frame("done", op, userId, amount, 0, Rejected("InvalidAmount"))
       ELSE Frame("selectById", op, userId, amount, 0, NoResult)]
  /\ UNCHANGED <<chargeLimit, locks, mutexes, userDb, historyDb, clock, base>>

UnguardedChargePoint(r, userId, amount) == UnguardedMutate(r, "chargePoint", userId, amount)

UnguardedUsePoint(r, userId, amount) == UnguardedMutate(r, "usePoint", userId, amount)

\* the request rejects with the error thrown by its check, or returns
\* { id, point: updatedPoint, updateMillis: Date.now() }
UnguardedReturn(r) ==
  /\ calls[r].pc = "release"
  /\ calls[r].mutex = 0
  /\ calls' = [calls EXCEPT ![r].pc = "done",
                            ![r].result = IF calls[r].result.status = "rejected"
                                          THEN calls[r].result
                                          ELSE Fulfilled(calls[r].userId.v, calls[r].updatedPoint, clock)]
  /\ UNCHANGED <<chargeLimit, locks, mutexes, userDb, historyDb, clock, base>>

\* SpecUnguarded: chargePoint / usePoint requests of the unguarded variant on
\* user 1, valid arguments, up to MaxOverlap of them overlapping.
NextUnguarded ==
  \/ \E r \in Overlap, amount \in ValidAmounts : UnguardedChargePoint(r, JsInt(1), amount)
  \/ \E r \in Overlap, amount \in ValidAmounts : UnguardedUsePoint(r, JsInt(1), amount)
  \/ \E r \in Calls : SelectById(r)
  \/ \E r \in Calls : InsertOrUpdate(r)
  \/ \E r \in Calls : Insert(r)
  \/ \E r \in Calls : UnguardedReturn(r)
  \/ Settle

SpecUnguarded == Init /\ [][NextUnguarded]_vars

(***************************************************************************)
(* SpecSequential: calls that never overlap.  One call at a time, in slot  *)
(* 1, runs to its result before the caller makes the next one; each        *)
(* chargePoint / usePoint is served by the guarded service or by the       *)
(* unguarded variant (getPoint and getHistories are the same code in       *)
(* both), on the same tables, with valid and invalid arguments.            *)
(***************************************************************************)
NextSequential ==
  \/ \E userId \in IdInputs : GetPoint(1, userId)
  \/ \E userId \in IdInputs : GetHistories(1, userId)
  \/ \E userId \in IdInputs, amount \in AmountInputs : ChargePoint(1, userId, amount)
  \/ \E userId \in IdInputs, amount \in AmountInputs : UsePoint(1, userId, amount)
  \/ \E userId \in IdInputs, amount \in AmountInputs : UnguardedChargePoint(1, userId, amount)
  \/ \E userId \in IdInputs, amount \in AmountInputs : UnguardedUsePoint(1, userId, amount)
  \/ \E r \in Calls : Read(r)
  \/ \E r \in Calls : Acquire(r)
  \/ \E r \in Calls : SelectById(r)
  \/ \E r \in Calls : InsertOrUpdate(r)
  \/ \E r \in Calls : Insert(r)
  \/ \E r \in Calls : Release(r)
  \/ \E r \in Calls : UnguardedReturn(r)
  \/ Settle

SpecSequential == Init /\ [][NextSequential]_vars

(***************************************************************************)
(* Two PointService objects built over the same two tables.  `locks` is an *)
(* instance field (line 10), so each object has a Map of its own, while    *)
(* userDb and historyDb are the collaborators handed to the constructor.   *)
(* The Map of instance i is kept in `locks` under the keys LockKey(i, u);  *)
(* the Map of the first instance is the `locks` of the other               *)
(* specifications.                                                         *)
(***************************************************************************)
Instances == {1, 2}

\* one Map shared by every instance, as a static field would be
LockKeyShared(i, u) == u

\* the key of user u in this.locks, `this` being instance i
LockKey(i, u) == (i - 1) * MaxUser + u

\* chargePoint / usePoint called on instance i
MutateOn(i, r, op, userId, amount) ==
  /\ CanInvoke(r)
  /\ IF InvalidId(userId)
     THEN /\ calls' = [calls EXCEPT ![r] =
                 [Frame("done", op, userId, amount, 0, Rejected("InvalidId"))
                    EXCEPT !.instance = i]]
          /\ UNCHANGED <<locks, mutexes>>
     ELSE IF InvalidAmount(amount)
     THEN /\ calls' = [calls EXCEPT ![r] =
                 [Frame("done", op, userId, amount, 0, Rejected("InvalidAmount"))
                    EXCEPT !.instance = i]]
          /\ UNCHANGED <<locks, mutexes>>
     ELSE /\ locks' = LocksAfterGet(LockKey(i, userId.v))
          /\ mutexes' = MutexesAfterGet(LockKey(i, userId.v))
          /\ calls' = [calls EXCEPT ![r] =
                 [Frame("acquire", op, userId, amount,
                        GetMutexForUser(LockKey(i, userId.v)), NoResult)
                    EXCEPT !.instance = i]]
  /\ UNCHANGED <<chargeLimit, userDb, historyDb, clock, base>>

ChargePointOn(i, r, userId, amount) == MutateOn(i, r, "chargePoint", userId, amount)

UsePointOn(i, r, userId, amount) == MutateOn(i, r, "usePoint", userId, amount)

\* SpecInstances: chargePoint / usePoint requests with valid arguments on any
\* user, each sent to either instance, up to MaxOverlap of them overlapping.
NextInstances ==
  \/ \E i \in Instances, r \in Overlap, userId \in ValidIds, amount \in ValidAmounts :
       ChargePointOn(i, r, userId, amount)
  \/ \E i \in Instances, r \in Overlap, userId \in ValidIds, amount \in ValidAmounts :
       UsePointOn(i, r, userId, amount)
  \/ \E r \in Calls : Acquire(r)
  \/ \E r \in Calls : SelectById(r)
  \/ \E r \in Calls : InsertOrUpdate(r)
  \/ \E r \in Calls : Insert(r)
  \/ \E r \in Calls : Release(r)
  \/ Settle

SpecInstances == Init /\ [][NextInstances]_vars

(***************************************************************************)
(* Vocabulary of the properties.                                           *)
(***************************************************************************)
\* the requests of the current batch
Batch == {r \in Calls : calls[r].pc # "idle"}

\* the batch has settled: every request of it has returned or thrown
Quiescent ==
  /\ \A r \in Calls : calls[r].pc \in {"idle", "done"}
  /\ \E r \in Calls : calls[r].pc = "done"

IsMutation(r) == calls[r].op \in {"chargePoint", "usePoint"}

\* the chargePoint / usePoint requests of the batch that passed validation, per user
Mutations(u) ==
  {r \in Batch : IsMutation(r) /\ calls[r].userId = JsInt(u) /\ ~InvalidAmount(calls[r].amount)}

Charges(u) == {r \in Mutations(u) : calls[r].op = "chargePoint"}
Uses(u) == {r \in Mutations(u) : calls[r].op = "usePoint"}

\* between the start of the callback and the release of the Mutex
InCriticalSection(r) ==
  calls[r].pc \in {"selectById", "insertOrUpdate", "insert", "release"}

Succeeded(r) == calls[r].pc = "done" /\ calls[r].result.status = "fulfilled"
FailedWith(r, err) ==
  calls[r].pc = "done" /\ calls[r].result.status = "rejected" /\ calls[r].result.error = err

\* the records of user u appended since the batch began
NewHistory(u) ==
  SelectSeq(SubSeq(historyDb, base.len + 1, Len(historyDb)), LAMBDA h : h.userId = u)

RECURSIVE SumAmounts(_)
SumAmounts(S) ==
  IF S = {} THEN 0
  ELSE LET r == CHOOSE x \in S : TRUE IN calls[r].amount.v + SumAmounts(S \ {r})

Min(a, b) == IF a <= b THEN a ELSE b

CountRecords(h, type, a) ==
  Cardinality({i \in 1..Len(h) : h[i].type = type /\ h[i].amount = a})

CountRequests(S, a) == Cardinality({r \in S : calls[r].amount.v = a})

\* C1: for every user id, no two chargePoint / usePoint requests for that id
\* are inside their critical sections at the same time.
MutualExclusion ==
  \A r1, r2 \in Calls :
    (r1 # r2 /\ InCriticalSection(r1) /\ InCriticalSection(r2))
      => calls[r1].userId # calls[r2].userId

\* a request is inside its critical section, past the balance read, while two
\* more requests for the same user wait for the Mutex
MutualExclusionWitness ==
  \E r1, r2, r3 \in Calls :
    /\ r1 # r2 /\ r2 # r3 /\ r1 # r3
    /\ calls[r1].pc = "insertOrUpdate"
    /\ calls[r2].pc = "acquire" /\ calls[r2].userId = calls[r1].userId
    /\ calls[r3].pc = "acquire" /\ calls[r3].userId = calls[r1].userId

(***************************************************************************)
(* The sequential reference of C2: the requests of a batch run one at a    *)
(* time in the order o, each against the balance its predecessor left.     *)
(***************************************************************************)
Orders(S) ==
  {o \in [1..Cardinality(S) -> S] : \A i, j \in 1..Cardinality(S) : i # j => o[i] # o[j]}

SerialCandidate(r, b) ==
  IF calls[r].op = "chargePoint" THEN b + calls[r].amount.v ELSE b - calls[r].amount.v

SerialLegal(r, b) ==
  IF calls[r].op = "chargePoint" THEN SerialCandidate(r, b) <= chargeLimit
  ELSE SerialCandidate(r, b) >= 0

RECURSIVE SerialBalance(_, _, _)
SerialBalance(o, n, b) ==
  IF n = 0 THEN b
  ELSE LET prev == SerialBalance(o, n - 1, b) IN
       IF SerialLegal(o[n], prev) THEN SerialCandidate(o[n], prev) ELSE prev

SerialOutcomeMatches(o, i, b) ==
  LET r == o[i]
      prev == SerialBalance(o, i - 1, b)
  IN IF SerialLegal(r, prev)
     THEN Succeeded(r) /\ calls[r].result.point = SerialCandidate(r, prev)
     ELSE FailedWith(r, IF calls[r].op = "chargePoint" THEN "LimitExceeded"
                        ELSE "InsufficientPoint")

SerialHistoryMatches(o, u) ==
  LET committed == SelectSeq(o, LAMBDA r : Succeeded(r))
      h == NewHistory(u)
  IN /\ Len(h) = Len(committed)
     /\ \A k \in 1..Len(h) :
          /\ h[k].userId = u
          /\ h[k].amount = calls[committed[k]].amount.v
          /\ h[k].type = (IF calls[committed[k]].op = "chargePoint" THEN "CHARGE" ELSE "USE")

SerialRun(o, u) ==
  /\ \A i \in 1..Len(o) : SerialOutcomeMatches(o, i, base.point[u])
  /\ userDb[u] = SerialBalance(o, Len(o), base.point[u])
  /\ SerialHistoryMatches(o, u)

\* C2: when a batch of concurrent chargePoint / usePoint requests on one user
\* has settled, the outcome of every request, the final balance and the
\* history appended are those of running the requests one at a time in some
\* order, starting from the balance the batch found.
Serializable ==
  Quiescent => \A u \in Users : \E o \in Orders(Mutations(u)) : SerialRun(o, u)

\* a settled batch of MaxCalls requests on a user with a positive balance,
\* charges and uses mixed, some rejected
SerializableWitness ==
  /\ Quiescent
  /\ base.point[1] > 0
  /\ Cardinality(Mutations(1)) = MaxCalls
  /\ Charges(1) # {} /\ Uses(1) # {}
  /\ \E r \in Mutations(1) : calls[r].result.status = "rejected"
  /\ \E r \in Mutations(1) : calls[r].result.status = "fulfilled"

\* C3: every user's stored balance is >= 0 in every reachable state.
BalanceNonNegative == \A u \in Users : userDb[u] >= 0

\* a use has just emptied a balance while a second use of the same user,
\* which must fail, waits for the Mutex
BalanceNonNegativeWitness ==
  \E r1, r2 \in Calls :
    /\ r1 # r2
    /\ calls[r1].op = "usePoint" /\ calls[r1].pc = "insert"
    /\ userDb[calls[r1].userId.v] = 0
    /\ calls[r2].op = "usePoint" /\ calls[r2].pc = "acquire"
    /\ calls[r2].userId = calls[r1].userId

\* C4: the step in which a chargePoint request commits its balance write
\* leaves that user's stored balance <= chargeLimit.
ChargeWriteWithinLimit ==
  [][\A r \in Calls :
       (calls[r].op = "chargePoint" /\ calls[r].pc = "insertOrUpdate" /\ calls'[r].pc = "insert")
         => userDb'[calls[r].userId.v] <= chargeLimit]_vars

\* a charge has just written a balance equal to the limit while another charge
\* of the same user waits for the Mutex
ChargeWriteWithinLimitWitness ==
  \E r1, r2 \in Calls :
    /\ r1 # r2
    /\ calls[r1].op = "chargePoint" /\ calls[r1].pc = "insert"
    /\ userDb[calls[r1].userId.v] = chargeLimit
    /\ calls[r2].op = "chargePoint" /\ calls[r2].pc = "acquire"
    /\ calls[r2].userId = calls[r1].userId


AllSame(S) == \A r1, r2 \in S : calls[r1].amount = calls[r2].amount

AmountOf(S) == calls[CHOOSE r \in S : TRUE].amount.v

\* the records h are one record of the given type per request of S
OneRecordPerRequest(h, S, type) ==
  /\ Len(h) = Cardinality(S)
  /\ \A k \in 1..Len(h) : h[k].type = type
  /\ \A a \in 1..MaxAmount : CountRecords(h, type, a) = CountRequests(S, a)
  /\ \A j, k \in 1..Len(h) : j # k => h[j].id # h[k].id

\* C5: when a settled batch on one user consists of chargePoint requests whose
\* amounts keep B + sum <= chargeLimit (B the balance the batch found), every
\* request succeeded, the balance is B + sum and the history gained exactly
\* one CHARGE record per request.
NoLostCharge ==
  Quiescent =>
    \A u \in Users :
      LET M == Mutations(u) IN
      (M # {} /\ Uses(u) = {} /\ base.point[u] + SumAmounts(M) <= chargeLimit)
        => /\ \A r \in M : Succeeded(r)
           /\ userDb[u] = base.point[u] + SumAmounts(M)
           /\ OneRecordPerRequest(NewHistory(u), M, "CHARGE")

\* two or more charges that together reach the limit exactly
NoLostChargeWitness ==
  /\ Quiescent
  /\ Uses(1) = {}
  /\ Cardinality(Charges(1)) >= 2
  /\ base.point[1] + SumAmounts(Charges(1)) = chargeLimit

\* C6: when a settled batch on one user consists of usePoint requests whose
\* amounts total at most B, every request succeeded and the balance is B - sum
\* (one USE record per request).
NoLostUse ==
  Quiescent =>
    \A u \in Users :
      LET M == Mutations(u) IN
      (M # {} /\ Charges(u) = {} /\ SumAmounts(M) <= base.point[u])
        => /\ \A r \in M : Succeeded(r)
           /\ userDb[u] = base.point[u] - SumAmounts(M)
           /\ OneRecordPerRequest(NewHistory(u), M, "USE")

\* two uses of the same amount that together empty the balance
NoLostUseWitness ==
  /\ Quiescent
  /\ Charges(1) = {}
  /\ Cardinality(Uses(1)) = 2
  /\ AllSame(Uses(1))
  /\ base.point[1] > 0
  /\ SumAmounts(Uses(1)) = base.point[1]

\* C7: of n settled concurrent charges of one amount A on a user that had
\* balance B, exactly k = min(n, (chargeLimit - B) div A) succeeded, the others
\* failed with LimitExceeded, and the balance is B + k * A.
SameAmountCharges ==
  Quiescent =>
    \A u \in Users :
      LET M == Mutations(u) IN
      (M # {} /\ Uses(u) = {} /\ AllSame(M))
        => LET k == Min(Cardinality(M), (chargeLimit - base.point[u]) \div AmountOf(M))
               ok == {r \in M : Succeeded(r)}
           IN /\ Cardinality(ok) = k
              /\ \A r \in M \ ok : FailedWith(r, "LimitExceeded")
              /\ userDb[u] = base.point[u] + k * AmountOf(M)

\* MaxCalls equal charges on a user with a positive balance: some succeed,
\* some hit the limit
SameAmountChargesWitness ==
  /\ Quiescent
  /\ Uses(1) = {}
  /\ Cardinality(Charges(1)) = MaxCalls
  /\ AllSame(Charges(1))
  /\ base.point[1] > 0
  /\ Cardinality({r \in Charges(1) : Succeeded(r)}) >= 1
  /\ Cardinality({r \in Charges(1) : FailedWith(r, "LimitExceeded")}) >= 2

\* C8: of n settled concurrent uses of one amount A on a user that had
\* balance B, exactly k = min(n, B div A) succeeded, the others failed with
\* InsufficientPoint, and the balance is B - k * A.
SameAmountUses ==
  Quiescent =>
    \A u \in Users :
      LET M == Mutations(u) IN
      (M # {} /\ Charges(u) = {} /\ AllSame(M))
        => LET k == Min(Cardinality(M), base.point[u] \div AmountOf(M))
               ok == {r \in M : Succeeded(r)}
           IN /\ Cardinality(ok) = k
              /\ \A r \in M \ ok : FailedWith(r, "InsufficientPoint")
              /\ userDb[u] = base.point[u] - k * AmountOf(M)

\* MaxCalls equal uses that empty the balance: two succeed, the others fail
SameAmountUsesWitness ==
  /\ Quiescent
  /\ Charges(1) = {}
  /\ Cardinality(Uses(1)) = MaxCalls
  /\ AllSame(Uses(1))
  /\ Cardinality({r \in Uses(1) : Succeeded(r)}) = 2
  /\ Cardinality({r \in Uses(1) : FailedWith(r, "InsufficientPoint")}) = MaxCalls - 2
  /\ userDb[1] = 0

\* two requests of S, each legal alone on balance b, illegal together
ConflictingCharges(S, b) ==
  /\ Cardinality(S) = 2
  /\ \A r \in S : b + calls[r].amount.v <= chargeLimit
  /\ b + SumAmounts(S) > chargeLimit

ConflictingUses(S, b) ==
  /\ Cardinality(S) = 2
  /\ \A r \in S : calls[r].amount.v <= b
  /\ SumAmounts(S) > b

\* C9: of two settled concurrent charges on one user, each within the limit
\* alone but not together, exactly one succeeded, the other failed with
\* LimitExceeded, and the balance is B plus the amount of the one that succeeded.
ConflictingChargesOneWins ==
  Quiescent =>
    \A u \in Users :
      LET M == Mutations(u) IN
      (Uses(u) = {} /\ ConflictingCharges(M, base.point[u]))
        => \E w \in M :
             /\ Succeeded(w)
             /\ \A l \in M \ {w} : FailedWith(l, "LimitExceeded")
             /\ userDb[u] = base.point[u] + calls[w].amount.v

\* the smaller of two conflicting charges lost
ConflictingChargesOneWinsWitness ==
  /\ Quiescent
  /\ Uses(1) = {}
  /\ ConflictingCharges(Mutations(1), base.point[1])
  /\ \E w, l \in Mutations(1) :
       /\ Succeeded(w) /\ FailedWith(l, "LimitExceeded")
       /\ calls[l].amount.v < calls[w].amount.v

\* C10: of two settled concurrent uses on one user, each covered by the
\* balance alone but not together, exactly one succeeded, the other failed
\* with InsufficientPoint, and the balance is B minus the amount of the one
\* that succeeded.
ConflictingUsesOneWins ==
  Quiescent =>
    \A u \in Users :
      LET M == Mutations(u) IN
      (Charges(u) = {} /\ ConflictingUses(M, base.point[u]))
        => \E w \in M :
             /\ Succeeded(w)
             /\ \A l \in M \ {w} : FailedWith(l, "InsufficientPoint")
             /\ userDb[u] = base.point[u] - calls[w].amount.v

\* uses of different amounts (50 and 51 on 100): the smaller one lost
ConflictingUsesOneWinsWitness ==
  /\ Quiescent
  /\ Charges(1) = {}
  /\ ConflictingUses(Mutations(1), base.point[1])
  /\ \E w, l \in Mutations(1) :
       /\ Succeeded(w) /\ FailedWith(l, "InsufficientPoint")
       /\ calls[l].amount.v < calls[w].amount.v
       /\ userDb[1] = base.point[1] - calls[w].amount.v

(***************************************************************************)
(* C11: failures that an order of the requests would have avoided.         *)
(***************************************************************************)
\* every request of the order o succeeds when they run one at a time from b
SerialAllSucceed(o, b) ==
  \A i \in 1..Len(o) : SerialLegal(o[i], SerialBalance(o, i - 1, b))

\* C11 as stated: when a batch of concurrent chargePoint / usePoint requests
\* on one user (charges and uses mixed included) has settled and some
\* sequential order of them lets every one succeed, every request succeeded.
NoUnnecessaryFailureOriginal ==
  Quiescent =>
    \A u \in Users :
      (\E o \in Orders(Mutations(u)) : SerialAllSucceed(o, base.point[u]))
        => \A r \in Mutations(u) : Succeeded(r)

\* C11 amended: when a batch of concurrent chargePoint / usePoint requests on
\* one user has settled and every sequential order of them lets every one
\* succeed (for a batch of charges only or of uses only: as soon as one order
\* does), every request succeeded.
NoUnnecessaryFailure ==
  Quiescent =>
    \A u \in Users :
      LET M == Mutations(u) IN
      (\/ \A o \in Orders(M) : SerialAllSucceed(o, base.point[u])
       \/ /\ Charges(u) = {} \/ Uses(u) = {}
          /\ \E o \in Orders(M) : SerialAllSucceed(o, base.point[u]))
        => \A r \in M : Succeeded(r)

\* a settled batch mixing a charge and a use, every order of which is legal
\* (balance 1, limit 2: charge 1 and use 1), both succeeded
NoUnnecessaryFailureWitness ==
  /\ Quiescent
  /\ Charges(1) # {} /\ Uses(1) # {}
  /\ \A o \in Orders(Mutations(1)) : SerialAllSucceed(o, base.point[1])
  /\ \A r \in Mutations(1) : Succeeded(r)

(***************************************************************************)
(* C12: users are independent of each other.                               *)
(***************************************************************************)
\* the request r takes a step
Steps(r) == calls'[r] # calls[r]

\* C12: a step changes the stored balance or the history of a user v only if
\* it is a step of a chargePoint / usePoint request on v; and when a batch
\* has settled, every user's outcomes, final balance and appended history are
\* those of running that user's own requests alone, one at a time, from the
\* balance the batch found for that user (with one request per user: the one
\* outcome that request has on its own, whatever the other users' requests
\* did and however they interleaved).
CrossUserIndependence ==
  [][/\ \A v \in Users :
          (userDb'[v] # userDb[v] \/ SelectAllByUserId(v)' # SelectAllByUserId(v))
            => \E r \in Calls : /\ Steps(r) /\ IsMutation(r)
                                /\ calls[r].userId = JsInt(v)
     /\ (Quiescent => \A u \in Users : \E o \in Orders(Mutations(u)) : SerialRun(o, u))'
    ]_vars

\* requests on two different users are inside their critical sections at the
\* same time, one of them having written its user's balance
CrossUserIndependenceWitness ==
  \E r1, r2 \in Calls :
    /\ calls[r1].userId # calls[r2].userId
    /\ calls[r1].pc = "insert" /\ userDb[calls[r1].userId.v] # base.point[calls[r1].userId.v]
    /\ calls[r2].pc \in {"insertOrUpdate", "insert"}

(***************************************************************************)
(* C13: a critical section of one user does not block another user.        *)
(***************************************************************************)
\* C13: no two user ids share a Mutex, and a validated chargePoint / usePoint
\* request waiting for its Mutex can enter its critical section at once
\* whenever no request on the same user is inside one, whatever critical
\* sections of other users are in progress.
NoCrossUserBlocking ==
  /\ \A u, v \in DOMAIN locks : u # v => locks[u] # locks[v]
  /\ \A r \in Calls :
       (/\ calls[r].pc = "acquire"
        /\ \A q \in Calls : InCriticalSection(q) => calls[q].userId # calls[r].userId)
         => ENABLED Acquire(r)

\* a request on one user is about to acquire its Mutex while a request on
\* another user is inside its critical section
NoCrossUserBlockingWitness ==
  \E r, q \in Calls :
    /\ calls[r].pc = "acquire"
    /\ InCriticalSection(q) /\ calls[q].pc # "release"
    /\ calls[q].userId # calls[r].userId
    /\ \A p \in Calls : InCriticalSection(p) => calls[p].userId # calls[r].userId

(***************************************************************************)
(* C14 .. C17: one chargePoint / usePoint request on a user with balance B.*)
(***************************************************************************)
\* r is the only chargePoint / usePoint request of the batch on user u
OnlyMutation(r, u, op) ==
  /\ calls[r].op = op
  /\ calls[r].userId = JsInt(u)
  /\ ~InvalidAmount(calls[r].amount)
  /\ \A q \in Calls \ {r} :
       ~(IsMutation(q) /\ calls[q].userId = JsInt(u) /\ ~InvalidAmount(calls[q].amount))

\* the batch appended to u's history exactly one record, of this type and amount
OneRecord(u, type, amount) ==
  /\ Len(NewHistory(u)) = 1
  /\ NewHistory(u)[1].userId = u
  /\ NewHistory(u)[1].type = type
  /\ NewHistory(u)[1].amount = amount

\* C14: a settled chargePoint(u, A), the only request on u, with B + A <=
\* chargeLimit (equality included) succeeded with id = u and point = B + A,
\* the stored balance is B + A, and exactly one CHARGE record with userId u
\* and amount A was appended.
ChargeWithinLimitSucceeds ==
  Quiescent =>
    \A u \in Users : \A r \in Calls :
      LET B == base.point[u]
          A == calls[r].amount.v
      IN (OnlyMutation(r, u, "chargePoint") /\ B + A <= chargeLimit)
           => /\ Succeeded(r)
              /\ calls[r].result.id = u
              /\ calls[r].result.point = B + A
              /\ userDb[u] = B + A
              /\ OneRecord(u, "CHARGE", A)

\* a settled charge on a positive balance that reached the limit exactly
ChargeWithinLimitSucceedsWitness ==
  /\ Quiescent
  /\ \E r \in Calls :
       /\ OnlyMutation(r, 1, "chargePoint")
       /\ base.point[1] > 0
       /\ base.point[1] + calls[r].amount.v = chargeLimit
       /\ Succeeded(r) /\ userDb[1] = chargeLimit

\* C15: while chargePoint(u, A) with B + A > chargeLimit is the only request
\* on u, the stored balance stays B, no history record is appended and the
\* request never reaches its balance write; once settled it has failed with
\* LimitExceeded, the error carrying the configured chargeLimit.
ChargeOverLimitFails ==
  \A u \in Users : \A r \in Calls :
    LET B == base.point[u]
        A == calls[r].amount.v
    IN (OnlyMutation(r, u, "chargePoint") /\ B + A > chargeLimit)
         => /\ userDb[u] = B
            /\ NewHistory(u) = <<>>
            /\ calls[r].pc \notin {"insertOrUpdate", "insert"}
            /\ calls[r].pc = "done"
                 => /\ FailedWith(r, "LimitExceeded")
                    /\ calls[r].result.limit = chargeLimit

\* a settled charge that would have passed the limit by one
ChargeOverLimitFailsWitness ==
  /\ Quiescent
  /\ \E r \in Calls :
       /\ OnlyMutation(r, 1, "chargePoint")
       /\ base.point[1] > 0
       /\ base.point[1] + calls[r].amount.v = chargeLimit + 1
       /\ FailedWith(r, "LimitExceeded")

\* C16: a settled usePoint(u, A), the only request on u, with A <= B (A = B
\* included) succeeded with id = u and point = B - A, the stored balance is
\* B - A, and exactly one USE record with userId u and amount A was appended.
UseWithinBalanceSucceeds ==
  Quiescent =>
    \A u \in Users : \A r \in Calls :
      LET B == base.point[u]
          A == calls[r].amount.v
      IN (OnlyMutation(r, u, "usePoint") /\ A <= B)
           => /\ Succeeded(r)
              /\ calls[r].result.id = u
              /\ calls[r].result.point = B - A
              /\ userDb[u] = B - A
              /\ OneRecord(u, "USE", A)

\* a settled use of the whole balance
UseWithinBalanceSucceedsWitness ==
  /\ Quiescent
  /\ \E r \in Calls :
       /\ OnlyMutation(r, 1, "usePoint")
       /\ calls[r].amount.v = base.point[1]
       /\ Succeeded(r) /\ userDb[1] = 0

\* C17: while usePoint(u, A) with A > B is the only request on u, the stored
\* balance stays B, no history record is appended and the request never
\* reaches its balance write; once settled it has failed with
\* InsufficientPoint.
UseOverBalanceFails ==
  \A u \in Users : \A r \in Calls :
    LET B == base.point[u]
        A == calls[r].amount.v
    IN (OnlyMutation(r, u, "usePoint") /\ A > B)
         => /\ userDb[u] = B
            /\ NewHistory(u) = <<>>
            /\ calls[r].pc \notin {"insertOrUpdate", "insert"}
            /\ calls[r].pc = "done" => FailedWith(r, "InsufficientPoint")

\* a settled use of one more than a positive balance
UseOverBalanceFailsWitness ==
  /\ Quiescent
  /\ \E r \in Calls :
       /\ OnlyMutation(r, 1, "usePoint")
       /\ base.point[1] > 0
       /\ calls[r].amount.v = base.point[1] + 1
       /\ FailedWith(r, "InsufficientPoint")

(***************************************************************************)
(* C18, C19: argument validation.                                          *)
(***************************************************************************)
\* the step is the call of an operation in slot r
Invoked(r) == calls[r].pc = "idle" /\ calls'[r].pc # "idle"

\* C18: the call of getPoint, getHistories, chargePoint or usePoint with a
\* userId that is 0, negative, fractional, NaN or +/-Infinity is rejected with
\* the invalid-id error in that same step: the request is over without a
\* store read, the balances and the history are unchanged, and no lock entry
\* or Mutex is created or acquired.
InvalidIdRejected ==
  [][\A r \in Calls :
       (Invoked(r) /\ calls'[r].userId \in BadIds)
         => /\ calls'[r].pc = "done"
            /\ calls'[r].result = Rejected("InvalidId")
            /\ UNCHANGED <<userDb, historyDb, locks, mutexes>>]_vars

\* a chargePoint with a fractional id and a valid amount and a getHistories
\* with id Infinity have both been rejected, and the lock map is still empty
InvalidIdRejectedWitness ==
  \E r1, r2 \in Calls :
    /\ calls[r1].op = "chargePoint" /\ calls[r1].userId = JsFrac(1)
    /\ calls[r1].amount = JsInt(1)
    /\ FailedWith(r1, "InvalidId")
    /\ calls[r2].op = "getHistories" /\ calls[r2].userId = JsInfinity
    /\ FailedWith(r2, "InvalidId")
    /\ DOMAIN locks = {}

\* C19: the call of chargePoint or usePoint with a valid userId and an amount
\* that is 0, negative, fractional, NaN or +/-Infinity is rejected with the
\* invalid-amount error in that same step, whether or not the user's Mutex is
\* held: the balances, the history, the lock map and every Mutex are
\* unchanged.
InvalidAmountRejected ==
  [][\A r \in Calls :
       (/\ Invoked(r)
        /\ calls'[r].op \in {"chargePoint", "usePoint"}
        /\ calls'[r].userId \in ValidIds
        /\ calls'[r].amount \in BadAmounts)
         => /\ calls'[r].pc = "done"
            /\ calls'[r].result = Rejected("InvalidAmount")
            /\ UNCHANGED <<userDb, historyDb, locks, mutexes>>]_vars

\* a usePoint with amount NaN has been rejected while an earlier request on
\* the same user holds the user's Mutex
InvalidAmountRejectedWitness ==
  \E r, q \in Calls :
    /\ q < r
    /\ calls[r].op = "usePoint" /\ calls[r].amount = JsNaN
    /\ FailedWith(r, "InvalidAmount")
    /\ calls[q].userId = calls[r].userId
    /\ InCriticalSection(q) /\ mutexes[calls[q].mutex]

(***************************************************************************)
(* C20: every validated request gets its Mutex and completes.              *)
(***************************************************************************)
\* the request in slot r is over, with success or one of the two business errors
Completed(r) ==
  /\ calls[r].pc = "done"
  /\ \/ calls[r].result.status = "fulfilled"
     \/ /\ calls[r].result.status = "rejected"
        /\ calls[r].result.error \in {"LimitExceeded", "InsufficientPoint"}

\* C20: under fair scheduling, a chargePoint / usePoint request that passed
\* validation and waits for its user's Mutex eventually holds it, and a
\* request that holds it eventually completes with success or with
\* LimitExceeded / InsufficientPoint; the only step a waiting request ever
\* takes is the one that acquires the Mutex.
EventuallyCompletes ==
  /\ \A r \in Calls : (calls[r].pc = "acquire") ~> (calls[r].pc = "selectById")
  /\ \A r \in Calls : (calls[r].pc = "selectById") ~> Completed(r)
  /\ [][\A r \in Calls : (calls[r].pc = "acquire" /\ Steps(r))
                           => calls'[r].pc = "selectById"]_vars

\* a request waits for the Mutex that a request on the same user holds, the
\* holder's callback having thrown and the Mutex not yet released
EventuallyCompletesWitness ==
  \E r, q \in Calls :
    /\ calls[r].pc = "acquire"
    /\ calls[q].userId = calls[r].userId
    /\ calls[q].pc = "release" /\ calls[q].result.status = "rejected"
    /\ mutexes[calls[r].mutex]

(***************************************************************************)
(* C21, C22: the lock registry and the release of the Mutex.               *)
(***************************************************************************)
\* the request in slot r passed validation and has not yet returned or thrown
InFlight(r) ==
  calls[r].pc \in {"acquire", "selectById", "insertOrUpdate", "insert", "release"}

\* C21: every user id has at most one Mutex, ever: the map is one-to-one, as
\* many Mutex objects were created as there are ids in the map, an entry once
\* made is never replaced, and every request in flight on an id runs under
\* that id's entry, so two requests that made the first access to a new id
\* together hold the same Mutex.
OneLockPerUser ==
  [][/\ \A u \in DOMAIN locks : u \in DOMAIN locks' /\ locks'[u] = locks[u]
     /\ (/\ Len(mutexes) = Cardinality(DOMAIN locks)
         /\ \A u, v \in DOMAIN locks : u # v => locks[u] # locks[v]
         /\ \A r \in Calls :
              InFlight(r) => /\ calls[r].userId.v \in DOMAIN locks
                             /\ calls[r].mutex = locks[calls[r].userId.v])'
    ]_vars

\* two requests on the same id wait together on the one Mutex of the only
\* entry of the map, before anything was ever written
OneLockPerUserWitness ==
  \E r1, r2 \in Calls :
    /\ r1 # r2
    /\ calls[r1].pc = "acquire" /\ calls[r2].pc = "acquire"
    /\ calls[r1].userId = calls[r2].userId
    /\ calls[r1].mutex = calls[r2].mutex
    /\ Cardinality(DOMAIN locks) = 1
    /\ historyDb = <<>>

\* C22: a Mutex is held only while a request is inside that Mutex's critical
\* section: a request that has returned or thrown (LimitExceeded and
\* InsufficientPoint included) no longer holds it, a later request on the same
\* user can enter, and with no request in progress no Mutex is held.
LockReleasedOnExit ==
  \A m \in DOMAIN mutexes :
    mutexes[m] => \E r \in Calls : InCriticalSection(r) /\ calls[r].mutex = m

\* after a request on a user failed inside its critical section, a later
\* request on the same user is inside its own, and the failed one holds nothing
LockReleasedOnExitWitness ==
  \E r, q \in Calls :
    /\ r < q
    /\ calls[r].userId = calls[q].userId
    /\ calls[r].pc = "done" /\ calls[r].result.status = "rejected"
    /\ calls[q].pc = "selectById"

(***************************************************************************)
(* C23: the timestamp of the returned record.                              *)
(***************************************************************************)
\* C23 as stated: a chargePoint / usePoint request that succeeded returned an
\* updateMillis equal to the timestamp it passed to historyDb.insert inside
\* its critical section.
UpdateMillisIsHistoryTimestamp ==
  \A r \in Calls :
    (IsMutation(r) /\ Succeeded(r)) => calls[r].result.updateMillis = calls[r].timeMillis

(***************************************************************************)
(* C24: the history is append-only and chronological per user.             *)
(***************************************************************************)
\* the timestamps of the sequence of records h never decrease
Chronological(h) ==
  \A i, j \in 1..Len(h) : i < j => h[i].timeMillis <= h[j].timeMillis

\* C24: a step never changes, removes or reorders a record, it adds at most
\* one record, at the end, and that record is the one of the request whose
\* critical section commits in this step (its user, amount, type and the
\* timestamp it took); the timestamps never decrease along a user's history.
HistoryAppendOnly ==
  [][/\ Len(historyDb') >= Len(historyDb)
     /\ SubSeq(historyDb', 1, Len(historyDb)) = historyDb
     /\ historyDb' # historyDb =>
          \E r \in Calls :
            /\ calls[r].pc = "insert" /\ calls'[r].pc = "release"
            /\ historyDb' = Append(historyDb, historyDb'[Len(historyDb')])
            /\ historyDb'[Len(historyDb')].userId = calls[r].userId.v
            /\ historyDb'[Len(historyDb')].amount = calls[r].amount.v
            /\ historyDb'[Len(historyDb')].type = (IF calls[r].op = "chargePoint" THEN "CHARGE" ELSE "USE")
            /\ historyDb'[Len(historyDb')].timeMillis = calls[r].timeMillis
     /\ \A u \in Users : Chronological(SelectAllByUserId(u))'
    ]_vars

\* a user's history holds a CHARGE taken at time 0 followed by a USE taken at
\* time 1
HistoryAppendOnlyWitness ==
  \E u \in Users :
    LET h == SelectAllByUserId(u) IN
    /\ Len(h) >= 2
    /\ h[1].type = "CHARGE" /\ h[1].timeMillis = 0
    /\ h[2].type = "USE" /\ h[2].timeMillis = 1

(***************************************************************************)
(* C25: a request runs its critical section once.                          *)
(***************************************************************************)
\* the position of a program point in the one pass a request makes
Rank(pc) ==
  CASE pc = "idle" -> 0
    [] pc = "acquire" -> 1
    [] pc = "read" -> 1
    [] pc = "selectById" -> 2
    [] pc = "insertOrUpdate" -> 3
    [] pc = "insert" -> 4
    [] pc = "release" -> 5
    [] pc = "done" -> 6

\* C25: every step of a request moves it forward in the one pass acquire,
\* read, write, append, release, done (so the balance is read once and each
\* write step is taken at most once), a finished request only ever leaves its
\* slot, and a request that has failed or finished changes neither a balance
\* nor the history; a balance changes only in the write step of one request
\* and the history grows only by the one record of one request's append step.
CriticalSectionOnce ==
  [][/\ \A r \in Calls :
          Steps(r) =>
            /\ \/ Rank(calls'[r].pc) > Rank(calls[r].pc)
               \/ calls[r].pc = "done" /\ calls'[r] = IdleCall
            /\ (calls[r].pc = "done" \/ calls[r].result.status = "rejected")
                 => userDb' = userDb /\ historyDb' = historyDb
     /\ userDb' # userDb =>
          \E r \in Calls : calls[r].pc = "insertOrUpdate" /\ calls'[r].pc = "insert"
     /\ historyDb' # historyDb =>
          /\ Len(historyDb') = Len(historyDb) + 1
          /\ \E r \in Calls : calls[r].pc = "insert" /\ calls'[r].pc = "release"
    ]_vars

\* of three requests of one batch, one has failed and is finished, one has
\* committed and is finished, and one is about to append its record
CriticalSectionOnceWitness ==
  \E r1, r2, r3 \in Calls :
    /\ calls[r1].pc = "done" /\ calls[r1].result.status = "rejected"
    /\ Succeeded(r2)
    /\ calls[r3].pc = "insert"

(***************************************************************************)
(* C26: the lost update of the unguarded variant.                          *)
(***************************************************************************)
\* the balance the request in slot r read, recovered from its candidate
BalanceRead(r) ==
  IF calls[r].op = "chargePoint" THEN calls[r].updatedPoint - calls[r].amount.v
  ELSE calls[r].updatedPoint + calls[r].amount.v

\* the two charges r1, r2 are the whole settled batch on user u, both read the
\* balance B the batch found, and both succeeded
BothReadSameBalance(u, r1, r2) ==
  /\ Quiescent
  /\ r1 # r2
  /\ Mutations(u) = {r1, r2} /\ Uses(u) = {}
  /\ Succeeded(r1) /\ Succeeded(r2)
  /\ BalanceRead(r1) = base.point[u] /\ BalanceRead(r2) = base.point[u]

\* C26: in the unguarded variant, whenever two concurrent charges on one user
\* both read the same balance B and both succeed, both returned B plus their
\* own amount and both appended their record, yet the stored balance is B
\* plus the amount of only one of them.
UnguardedLostUpdate ==
  \A u \in Users : \A r1, r2 \in Calls :
    BothReadSameBalance(u, r1, r2) =>
      /\ calls[r1].result.point = base.point[u] + calls[r1].amount.v
      /\ calls[r2].result.point = base.point[u] + calls[r2].amount.v
      /\ Len(NewHistory(u)) = 2
      /\ userDb[u] \in {base.point[u] + calls[r1].amount.v, base.point[u] + calls[r2].amount.v}
      /\ userDb[u] < base.point[u] + calls[r1].amount.v + calls[r2].amount.v

\* two charges of 1 on balance 0 under limit 2, which a serial run would
\* both admit, have both succeeded and the balance is 1
UnguardedLostUpdateWitness ==
  \E r1, r2 \in Calls :
    /\ BothReadSameBalance(1, r1, r2)
    /\ base.point[1] + calls[r1].amount.v + calls[r2].amount.v <= chargeLimit
    /\ userDb[1] = base.point[1] + calls[r1].amount.v

(***************************************************************************)
(* C27: the balance is the ledger of the history.                          *)
(***************************************************************************)
\* the amounts of the CHARGE records of h minus those of its USE records
RECURSIVE Ledger(_)
Ledger(h) ==
  IF h = <<>> THEN 0
  ELSE Ledger(SubSeq(h, 1, Len(h) - 1))
       + (IF h[Len(h)].type = "CHARGE" THEN h[Len(h)].amount ELSE 0 - h[Len(h)].amount)

\* the Mutex of user u exists and is held
LockHeld(u) == HasLock(u) /\ mutexes[locks[u]]

\* the requests on u that have written the balance and not yet appended
Unrecorded(u) == {r \in Calls : calls[r].pc = "insert" /\ calls[r].userId = JsInt(u)}

\* what the request r adds to its user's balance
SignedAmount(r) ==
  IF calls[r].op = "chargePoint" THEN calls[r].amount.v ELSE 0 - calls[r].amount.v

\* C27: whenever user u's Mutex is not held, u's balance is the sum of u's
\* CHARGE records minus the sum of u's USE records; in every state the balance
\* is that ledger plus the amount of the at most one request on u that has
\* written and not yet appended, so every record is already in the balance.
LedgerMatchesHistory ==
  \A u \in Users :
    /\ ~LockHeld(u) => userDb[u] = Ledger(SelectAllByUserId(u))
    /\ Cardinality(Unrecorded(u)) <= 1
    /\ userDb[u] = Ledger(SelectAllByUserId(u))
                     + (IF Unrecorded(u) = {} THEN 0
                        ELSE SignedAmount(CHOOSE r \in Unrecorded(u) : TRUE))

\* a use has written a user's balance and not yet appended its record, on top
\* of a charge already recorded, while another request waits for the Mutex
LedgerMatchesHistoryWitness ==
  \E u \in Users : \E r, q \in Calls :
    /\ r \in Unrecorded(u) /\ calls[r].op = "usePoint"
    /\ LockHeld(u)
    /\ Ledger(SelectAllByUserId(u)) > userDb[u]
    /\ calls[q].pc = "acquire" /\ calls[q].userId = JsInt(u)

(***************************************************************************)
(* C28: no balance is ever over the limit.                                 *)
(***************************************************************************)
\* C28: every user's stored balance is <= chargeLimit in every reachable
\* state, whatever requests (charges, uses, reads, failed or rejected ones)
\* have run or are running.
BalanceWithinLimit == \A u \in Users : userDb[u] <= chargeLimit

\* a user's balance is at the limit after a charge on it failed with
\* LimitExceeded and a request with an invalid amount was rejected
BalanceWithinLimitWitness ==
  \E u \in Users : \E r1, r2 \in Calls :
    /\ userDb[u] = chargeLimit
    /\ calls[r1].userId = JsInt(u) /\ FailedWith(r1, "LimitExceeded")
    /\ calls[r2].userId = JsInt(u) /\ FailedWith(r2, "InvalidAmount")

(***************************************************************************)
(* C29: the two reads are lock-free and read-only.                         *)
(***************************************************************************)
\* the request in slot r is a getPoint or a getHistories
IsRead(r) == calls[r].op \in {"getPoint", "getHistories"}

\* C29: no step of a getPoint or getHistories request, from its call to its
\* result, changes a balance, the history, the lock map or a Mutex; and the
\* store read such a request waits for can resolve in every state, whether or
\* not its user's Mutex is held by a charge or use in progress.
ReadsAreLockFree ==
  [][/\ \A r \in Calls :
          (Steps(r) /\ (IsRead(r) \/ IsRead(r)') /\ calls[r].pc # "done")
            => UNCHANGED <<userDb, historyDb, locks, mutexes>>
     /\ \A r \in Calls : (IsRead(r) /\ calls[r].pc = "read") => ENABLED Read(r)
    ]_vars

\* a getPoint has returned the balance that a request on the same user, still
\* holding the user's Mutex, has written and not yet recorded
ReadsAreLockFreeWitness ==
  \E u \in Users : \E r, q \in Calls :
    /\ q < r
    /\ calls[r].op = "getPoint" /\ calls[r].userId = JsInt(u) /\ Succeeded(r)
    /\ calls[q].userId = JsInt(u) /\ calls[q].pc = "insert"
    /\ LockHeld(u)
    /\ userDb[u] # base.point[u]
    /\ calls[r].result.point = userDb[u]

(***************************************************************************)
(* C30: without overlap the guarded service and the unguarded variant      *)
(* agree.  A call that runs alone is a function of its arguments and of    *)
(* the tables it finds; both variants compute the same function, the one   *)
(* below, so two runs of the same calls stay equal call after call.        *)
(***************************************************************************)
\* the balances and the history are those the call found
StoresUntouched == userDb = base.point /\ Len(historyDb) = base.len

\* the call in slot r, having run alone, ended as one sequential call does
SequentialOutcome(r) ==
  LET c == calls[r]
      u == c.userId.v
  IN IF c.userId \notin ValidIds
     THEN FailedWith(r, "InvalidId") /\ StoresUntouched
     ELSE IF c.op = "getPoint"
     THEN /\ Succeeded(r) /\ c.result.id = u /\ c.result.point = userDb[u]
          /\ StoresUntouched
     ELSE IF c.op = "getHistories"
     THEN /\ Succeeded(r) /\ c.result.histories = SelectAllByUserId(u)
          /\ StoresUntouched
     ELSE IF c.amount \notin ValidAmounts
     THEN FailedWith(r, "InvalidAmount") /\ StoresUntouched
     ELSE /\ SerialRun(<<r>>, u)
          /\ Succeeded(r) => c.result.id = u
          /\ \A v \in Users \ {u} : userDb[v] = base.point[v] /\ NewHistory(v) = <<>>
          /\ Len(historyDb) = base.len + Len(NewHistory(u))

\* C30: when calls do not overlap, every call, whether the lock-guarded
\* service or the unguarded variant serves it, returns the result and leaves
\* the balances and the history that the one sequential outcome prescribes
\* for its arguments and the tables it found; the two variants therefore
\* return the same results and leave the same tables on the same calls.
SequentialVariantsAgree ==
  Quiescent => \A r \in Batch : SequentialOutcome(r)

\* a charge served by the unguarded variant has succeeded on a positive
\* balance of a user whose earlier calls the guarded service served
SequentialVariantsAgreeWitness ==
  \E u \in Users :
    /\ Quiescent
    /\ calls[1].op = "chargePoint" /\ calls[1].userId = JsInt(u)
    /\ calls[1].mutex = 0 /\ Succeeded(1)
    /\ HasLock(u) /\ base.point[u] > 0
    /\ userDb[u] = chargeLimit

(***************************************************************************)
(* C31: the per-user lock is local to one PointService instance.           *)
(***************************************************************************)
\* C31: with two instances over the same store, the Mutex of a user is one
\* per instance: two requests in flight on the same user hold the same Mutex
\* exactly when they run on the same instance.  So critical sections on one
\* user never overlap within an instance, they can overlap across instances,
\* and when two charges sent to different instances both read the balance B
\* and both succeed, both appended their record and the stored balance is B
\* plus the amount of only one of them: the other update is lost.
LockIsPerInstance ==
  /\ \A r1, r2 \in Calls :
       (r1 # r2 /\ InFlight(r1) /\ InFlight(r2) /\ calls[r1].userId = calls[r2].userId)
         => /\ (calls[r1].mutex = calls[r2].mutex) <=> (calls[r1].instance = calls[r2].instance)
            /\ (InCriticalSection(r1) /\ InCriticalSection(r2))
                 => calls[r1].instance # calls[r2].instance
  /\ \A u \in Users : \A r1, r2 \in Calls :
       BothReadSameBalance(u, r1, r2) =>
         /\ calls[r1].instance # calls[r2].instance
         /\ Len(NewHistory(u)) = 2
         /\ userDb[u] \in {base.point[u] + calls[r1].amount.v,
                           base.point[u] + calls[r2].amount.v}
         /\ userDb[u] < base.point[u] + calls[r1].amount.v + calls[r2].amount.v

\* a charge of 1 sent to each instance on balance 0 under limit 2, which a
\* serial run would both admit: each ran under its own instance's Mutex, both
\* succeeded, two records were appended and the balance is 1
LockIsPerInstanceWitness ==
  \E r1, r2 \in Calls :
    /\ BothReadSameBalance(1, r1, r2)
    /\ calls[r1].instance = 1 /\ calls[r2].instance = 2
    /\ calls[r1].mutex # calls[r2].mutex
    /\ base.point[1] + calls[r1].amount.v + calls[r2].amount.v <= chargeLimit
    /\ userDb[1] = base.point[1] + calls[r1].amount.v
    /\ Len(NewHistory(1)) = 2

(***************************************************************************)
(* C32: the lifetime of the entries of the lock map.                       *)
(***************************************************************************)
\* this step is a chargePoint / usePoint request on user u passing validation
PassesValidation(r, u) ==
  /\ calls[r].pc = "idle"
  /\ calls'[r].pc = "acquire"
  /\ calls'[r].op \in {"chargePoint", "usePoint"}
  /\ calls'[r].userId = JsInt(u)

\* C32: lock entries are never evicted.  The map starts empty; no step removes
\* an entry or puts another Mutex in its place, whether that Mutex is held or
\* free, so the set of ids with an entry only grows; and an id gets its entry
\* in exactly the step in which the first chargePoint / usePoint request on it
\* passes validation, so an entry exists for an id exactly when some such
\* request has passed validation.
LockEntriesNeverEvicted ==
  /\ locks = << >>
  /\ [][/\ \A u \in DOMAIN locks : u \in DOMAIN locks' /\ locks'[u] = locks[u]
        /\ DOMAIN locks' \subseteq Users
        /\ \A u \in Users :
             /\ (u \in DOMAIN locks' /\ u \notin DOMAIN locks)
                  <=> (u \notin DOMAIN locks /\ \E r \in Calls : PassesValidation(r, u))
             /\ (\E r \in Calls : PassesValidation(r, u)) => u \in DOMAIN locks'
       ]_vars

\* the only request ever admitted on user 1 failed its balance check and the
\* batch has settled: nothing was written, no request is in progress, and the
\* entry of user 1 is still in the map, its Mutex free
LockEntriesNeverEvictedWitness ==
  /\ \A r \in Calls : calls[r].pc = "idle"
  /\ DOMAIN locks = {1}
  /\ ~mutexes[locks[1]]
  /\ historyDb = << >>

====
